---- MODULE Spec2Model ----
(***************************************************************************)
(* Model of the expression calculator in src/src/main.rs: the tokenizer,  *)
(* the recursive-descent parser, the checked evaluator, the infix          *)
(* renderer, the tree printer and the interactive loop that drives them.   *)
(*                                                                         *)
(* Text is a sequence of one-character strings.  The three box-drawing     *)
(* characters of the tree printer are written by their code points         *)
(* ("U+2502", "U+251C", "U+2514"), each standing for one character.        *)
(* The i64 of the source is a two's-complement integer of IntBits bits:    *)
(* TLC's integers are narrower than 64 bits, so the width is a bound of    *)
(* the model and every limit is derived from it.                           *)
(***************************************************************************)
EXTENDS Integers, Sequences, FiniteSets

VARIABLES pc, input, parser, parsed, printed, tree, result

vars == <<pc, input, parser, parsed, printed, tree, result>>

(***************************************************************************)
(* Bounds of the model.                                                    *)
(***************************************************************************)
IntBits == 5
MaxLen == 4
MaxTokens == 5
MaxNodes == 5

I64_MAX == 2^(IntBits - 1) - 1
I64_MIN == -I64_MAX - 1

(***************************************************************************)
(* Option and Result values.                                               *)
(***************************************************************************)
None == <<"None">>
Some(v) == <<"Some", v>>
Ok(v) == <<"Ok", v>>
Err(e) == <<"Err", e>>
Unset == <<"Unset">>

(***************************************************************************)
(* enum Expression.  A node is a tuple whose first element is the variant. *)
(***************************************************************************)
Number(n) == <<"Number", n>>
Addition(left, right) == <<"Addition", left, right>>
Subtraction(left, right) == <<"Subtraction", left, right>>
Multiplication(left, right) == <<"Multiplication", left, right>>
Division(left, right) == <<"Division", left, right>>
Remainder(left, right) == <<"Remainder", left, right>>
Negation(expr) == <<"Negation", expr>>

(***************************************************************************)
(* enum Token.                                                             *)
(***************************************************************************)
TokNumber(n) == <<"TokNumber", n>>
Plus == <<"Plus">>
Minus == <<"Minus">>
Times == <<"Times">>
Divide == <<"Divide">>
Modulo == <<"Modulo">>
LeftParen == <<"LeftParen">>
RightParen == <<"RightParen">>

(***************************************************************************)
(* Checked i64 arithmetic, as used by evaluate.                            *)
(***************************************************************************)
InI64(r) == I64_MIN <= r /\ r <= I64_MAX

\* The value a wrapping (two's-complement) operation would leave.
Wrap(r) == ((r - I64_MIN) % (2^IntBits)) + I64_MIN

Abs(a) == IF a < 0 THEN -a ELSE a

\* Integer division rounding toward zero, and its remainder.
TruncDiv(a, b) ==
    LET q == Abs(a) \div Abs(b)
    IN  IF (a < 0) # (b < 0) THEN -q ELSE q

TruncRem(a, b) == a - b * TruncDiv(a, b)

wrapping_add(a, b) == Some(Wrap(a + b))

checked_add(a, b) == IF InI64(a + b) THEN Some(a + b) ELSE None

checked_sub(a, b) == IF InI64(a - b) THEN Some(a - b) ELSE None

checked_mul(a, b) == IF InI64(a * b) THEN Some(a * b) ELSE None

checked_div(a, b) ==
    IF b = 0 \/ (a = I64_MIN /\ b = -1) THEN None ELSE Some(TruncDiv(a, b))

wrapping_rem(a, b) ==
    IF b = 0 THEN None
    ELSE IF a = I64_MIN /\ b = -1 THEN Some(0) ELSE Some(TruncRem(a, b))

checked_rem(a, b) ==
    IF b = 0 \/ (a = I64_MIN /\ b = -1) THEN None ELSE Some(TruncRem(a, b))

checked_neg(a) == IF InI64(-a) THEN Some(-a) ELSE None

(***************************************************************************)
(* Expression::evaluate.  The ? operator returns None as soon as an        *)
(* operand fails; the right operand is not evaluated after a failing left. *)
(***************************************************************************)
RECURSIVE evaluate(_)
evaluate(self) ==
    CASE self[1] = "Number" -> Some(self[2])
      [] self[1] = "Addition" ->
            LET v_left == evaluate(self[2])
            IN  IF v_left = None THEN None
                ELSE LET v_right == evaluate(self[3])
                     IN  IF v_right = None THEN None
                         ELSE checked_add(v_left[2], v_right[2])
      [] self[1] = "Subtraction" ->
            LET v_left == evaluate(self[2])
            IN  IF v_left = None THEN None
                ELSE LET v_right == evaluate(self[3])
                     IN  IF v_right = None THEN None
                         ELSE checked_sub(v_left[2], v_right[2])
      [] self[1] = "Multiplication" ->
            LET v_left == evaluate(self[2])
            IN  IF v_left = None THEN None
                ELSE LET v_right == evaluate(self[3])
                     IN  IF v_right = None THEN None
                         ELSE checked_mul(v_left[2], v_right[2])
      [] self[1] = "Division" ->
            LET v_left == evaluate(self[2])
            IN  IF v_left = None THEN None
                ELSE LET v_right == evaluate(self[3])
                     IN  IF v_right = None THEN None
                         ELSE IF v_right[2] = 0 THEN None
                         ELSE checked_div(v_left[2], v_right[2])
      [] self[1] = "Remainder" ->
            LET v_left == evaluate(self[2])
            IN  IF v_left = None THEN None
                ELSE LET v_right == evaluate(self[3])
                     IN  IF v_right = None THEN None
                         ELSE IF v_right[2] = 0 THEN None
                         ELSE checked_rem(v_left[2], v_right[2])
      [] self[1] = "Negation" ->
            LET v == evaluate(self[2])
            IN  IF v = None THEN None ELSE checked_neg(v[2])

(***************************************************************************)
(* Decimal text of an integer (i64's Display) and of a digit run.          *)
(***************************************************************************)
DigitChars == <<"0", "1", "2", "3", "4", "5", "6", "7", "8", "9">>

is_ascii_digit(c) == \E d \in 1..10 : DigitChars[d] = c

DigitValue(c) == (CHOOSE d \in 1..10 : DigitChars[d] = c) - 1

RECURSIVE NatDigits(_)
NatDigits(n) ==
    IF n < 10 THEN <<DigitChars[n + 1]>>
    ELSE Append(NatDigits(n \div 10), DigitChars[(n % 10) + 1])

to_string(n) == IF n < 0 THEN <<"-">> \o NatDigits(-n) ELSE NatDigits(n)

(***************************************************************************)
(* Expression::to_string_prec.                                             *)
(***************************************************************************)
never_parenthesize(s, parent_prec, prec) == s

eager_parenthesize(s, parent_prec, prec) ==
    IF parent_prec >= prec THEN <<"(">> \o s \o <<")">> ELSE s

\* if parent_prec > prec { format!("({})", s) } else { s }
parenthesize(s, parent_prec, prec) ==
    IF parent_prec > prec THEN <<"(">> \o s \o <<")">> ELSE s

RECURSIVE to_string_prec(_, _)
to_string_prec(self, parent_prec) ==
    CASE self[1] = "Number" -> to_string(self[2])
      [] self[1] = "Negation" ->
            parenthesize(<<"-">> \o to_string_prec(self[2], 5), parent_prec, 5)
      [] self[1] = "Multiplication" ->
            parenthesize(to_string_prec(self[2], 3) \o <<" ", "*", " ">>
                            \o to_string_prec(self[3], 4), parent_prec, 3)
      [] self[1] = "Division" ->
            parenthesize(to_string_prec(self[2], 3) \o <<" ", "/", " ">>
                            \o to_string_prec(self[3], 4), parent_prec, 3)
      [] self[1] = "Remainder" ->
            parenthesize(to_string_prec(self[2], 3) \o <<" ", "%", " ">>
                            \o to_string_prec(self[3], 4), parent_prec, 3)
      [] self[1] = "Addition" ->
            parenthesize(to_string_prec(self[2], 1) \o <<" ", "+", " ">>
                            \o to_string_prec(self[3], 2), parent_prec, 1)
      [] self[1] = "Subtraction" ->
            parenthesize(to_string_prec(self[2], 1) \o <<" ", "-", " ">>
                            \o to_string_prec(self[3], 2), parent_prec, 1)

\* Expression::print writes to_string_prec(0).
print(self) == to_string_prec(self, 0)

(***************************************************************************)
(* Expression::print_tree.  The output is the sequence of printed lines.   *)
(***************************************************************************)
BoxVert == "U+2502"
BoxTee == "U+251C"
BoxCorner == "U+2514"

swapped_symbol(is_last) == IF is_last THEN BoxTee ELSE BoxCorner

current_symbol(is_last) == IF is_last THEN BoxCorner ELSE BoxTee

child_prefix(is_last) == IF is_last THEN <<" ", " ">> ELSE <<BoxVert, " ">>

\* The println! of one node: bare when the prefix is empty.
node_line(prefix, is_last, label) ==
    IF prefix # <<>> THEN prefix \o <<current_symbol(is_last), " ">> \o label
    ELSE label

RECURSIVE print_tree_recursive(_, _, _)
print_tree_recursive(self, prefix, is_last) ==
    CASE self[1] = "Number" ->
            <<node_line(prefix, is_last, to_string(self[2]))>>
      [] self[1] = "Negation" ->
            <<node_line(prefix, is_last, <<"-">>)>>
            \o print_tree_recursive(self[2], prefix \o child_prefix(is_last), TRUE)
      [] self[1] = "Addition" ->
            <<node_line(prefix, is_last, <<"+">>)>>
            \o print_tree_recursive(self[2], prefix \o child_prefix(is_last), FALSE)
            \o print_tree_recursive(self[3], prefix \o child_prefix(is_last), TRUE)
      [] self[1] = "Subtraction" ->
            <<node_line(prefix, is_last, <<"-">>)>>
            \o print_tree_recursive(self[2], prefix \o child_prefix(is_last), FALSE)
            \o print_tree_recursive(self[3], prefix \o child_prefix(is_last), TRUE)
      [] self[1] = "Multiplication" ->
            <<node_line(prefix, is_last, <<"*">>)>>
            \o print_tree_recursive(self[2], prefix \o child_prefix(is_last), FALSE)
            \o print_tree_recursive(self[3], prefix \o child_prefix(is_last), TRUE)
      [] self[1] = "Division" ->
            <<node_line(prefix, is_last, <<"/">>)>>
            \o print_tree_recursive(self[2], prefix \o child_prefix(is_last), FALSE)
            \o print_tree_recursive(self[3], prefix \o child_prefix(is_last), TRUE)
      [] self[1] = "Remainder" ->
            <<node_line(prefix, is_last, <<"%">>)>>
            \o print_tree_recursive(self[2], prefix \o child_prefix(is_last), FALSE)
            \o print_tree_recursive(self[3], prefix \o child_prefix(is_last), TRUE)

print_tree(self) == print_tree_recursive(self, <<>>, TRUE)

(***************************************************************************)
(* Parser::tokenize and Parser::new.                                       *)
(***************************************************************************)
\* str::parse::<i64> of a digit run: digits are accumulated with checked
\* multiplication and addition, and the first overflow is an error.
RECURSIVE parse_digits(_, _, _)
parse_digits(num_str, i, acc) ==
    IF i > Len(num_str) THEN Ok(acc)
    ELSE LET m == checked_mul(acc, 10)
         IN  IF m = None THEN Err(<<"PosOverflow">>)
             ELSE LET a == checked_add(m[2], DigitValue(num_str[i]))
                  IN  IF a = None THEN Err(<<"PosOverflow">>)
                      ELSE parse_digits(num_str, i + 1, a[2])

RECURSIVE wrapping_digits(_, _, _)
wrapping_digits(num_str, i, acc) ==
    IF i > Len(num_str) THEN Ok(acc)
    ELSE wrapping_digits(num_str, i + 1, Wrap(acc * 10 + DigitValue(num_str[i])))

wrapping_parse_i64(num_str) == wrapping_digits(num_str, 1, 0)

parse_i64(num_str) == parse_digits(num_str, 1, 0)

\* The inner while loop: the index after the digit run that starts at i.
RECURSIVE digit_run_end(_, _)
digit_run_end(chars, i) ==
    IF i <= Len(chars) /\ is_ascii_digit(chars[i]) THEN digit_run_end(chars, i + 1)
    ELSE i

\* The outer while loop, from the character at index i with tokens pushed so far.
RECURSIVE tokenize_loop(_, _, _)
tokenize_loop(chars, i, tokens) ==
    IF i > Len(chars) THEN Ok(tokens)
    ELSE LET c == chars[i]
         IN  CASE c \in {" ", "\t", "\n"} -> tokenize_loop(chars, i + 1, tokens)
               [] c = "+" -> tokenize_loop(chars, i + 1, Append(tokens, Plus))
               [] c = "-" -> tokenize_loop(chars, i + 1, Append(tokens, Minus))
               [] c = "*" -> tokenize_loop(chars, i + 1, Append(tokens, Times))
               [] c = "/" -> tokenize_loop(chars, i + 1, Append(tokens, Divide))
               [] c = "%" -> tokenize_loop(chars, i + 1, Append(tokens, Modulo))
               [] c = "(" -> tokenize_loop(chars, i + 1, Append(tokens, LeftParen))
               [] c = ")" -> tokenize_loop(chars, i + 1, Append(tokens, RightParen))
               [] is_ascii_digit(c) ->
                    LET j == digit_run_end(chars, i)
                        num == parse_i64(SubSeq(chars, i, j - 1))
                    IN  IF num[1] = "Err" THEN Err(<<"Invalid number">>)
                        ELSE tokenize_loop(chars, j, Append(tokens, TokNumber(num[2])))
               [] OTHER -> Err(<<"Invalid character", c>>)

tokenize(text) == tokenize_loop(text, 1, <<>>)

Parser_new(text) ==
    LET tokens == tokenize(text)
    IN  IF tokens[1] = "Err" THEN tokens
        ELSE Ok([tokens |-> tokens[2], pos |-> 0])

(***************************************************************************)
(* The recursive-descent parser.  Each function takes the token vector and *)
(* the cursor and returns the Result, the cursor it leaves, and the        *)
(* deepest nesting of parse_factor calls it reached (frames on the call    *)
(* stack); depth is the number of parse_factor frames already open.        *)
(***************************************************************************)
Max(a, b) == IF a >= b THEN a ELSE b

current(tokens, pos) == IF pos < Len(tokens) THEN Some(tokens[pos + 1]) ELSE None

advance(pos) == pos + 1

IsErr(r) == r.res[1] = "Err"

\* left = Expression::Addition(Box::new(left), Box::new(right)), and Subtraction.
swapped_expression_node(token, left, right) ==
    IF token = Plus THEN Addition(right, left) ELSE Subtraction(right, left)

expression_node(token, left, right) ==
    IF token = Plus THEN Addition(left, right) ELSE Subtraction(left, right)

term_node(token, left, right) ==
    CASE token = Times -> Multiplication(left, right)
      [] token = Divide -> Division(left, right)
      [] token = Modulo -> Remainder(left, right)

RECURSIVE parse_expression(_, _, _)
RECURSIVE parse_expression_loop(_, _, _, _, _)
RECURSIVE parse_term(_, _, _)
RECURSIVE parse_term_loop(_, _, _, _, _)
RECURSIVE parse_factor(_, _, _)

negation_operand_as_term(tokens, pos, depth) == parse_term(tokens, pos, depth)

\* let expr = self.parse_factor()?; in the unary-minus arm.
negation_operand(tokens, pos, depth) == parse_factor(tokens, pos, depth)

parse_expression(tokens, pos, depth) ==
    LET l == parse_term(tokens, pos, depth)
    IN  IF IsErr(l) THEN l
        ELSE parse_expression_loop(tokens, l.res[2], l.pos, depth, l.deep)

parse_expression_loop(tokens, left, pos, depth, deep) ==
    LET token == current(tokens, pos)
    IN  IF token \in {Some(Plus), Some(Minus)}
        THEN LET r == parse_term(tokens, advance(pos), depth)
             IN  IF IsErr(r) THEN [r EXCEPT !.deep = Max(deep, r.deep)]
                 ELSE parse_expression_loop(tokens,
                          expression_node(token[2], left, r.res[2]),
                          r.pos, depth, Max(deep, r.deep))
        ELSE [res |-> Ok(left), pos |-> pos, deep |-> deep]

parse_term(tokens, pos, depth) ==
    LET l == parse_factor(tokens, pos, depth)
    IN  IF IsErr(l) THEN l
        ELSE parse_term_loop(tokens, l.res[2], l.pos, depth, l.deep)

parse_term_loop(tokens, left, pos, depth, deep) ==
    LET token == current(tokens, pos)
    IN  IF token \in {Some(Times), Some(Divide), Some(Modulo)}
        THEN LET r == parse_factor(tokens, advance(pos), depth)
             IN  IF IsErr(r) THEN [r EXCEPT !.deep = Max(deep, r.deep)]
                 ELSE parse_term_loop(tokens,
                          term_node(token[2], left, r.res[2]),
                          r.pos, depth, Max(deep, r.deep))
        ELSE [res |-> Ok(left), pos |-> pos, deep |-> deep]

parse_factor(tokens, pos, depth) ==
    LET token == current(tokens, pos)
    IN  CASE token # None /\ token[2][1] = "TokNumber" ->
                [res |-> Ok(Number(token[2][2])), pos |-> advance(pos),
                 deep |-> depth + 1]
          [] token = Some(Minus) ->
                LET r == negation_operand(tokens, advance(pos), depth + 1)
                IN  IF IsErr(r) THEN r
                    ELSE [res |-> Ok(Negation(r.res[2])), pos |-> r.pos,
                          deep |-> r.deep]
          [] token = Some(LeftParen) ->
                LET r == parse_expression(tokens, advance(pos), depth + 1)
                IN  IF IsErr(r) THEN r
                    ELSE IF current(tokens, r.pos) = Some(RightParen)
                         THEN [res |-> r.res, pos |-> advance(r.pos), deep |-> r.deep]
                         ELSE [res |-> Err("Expected ')'"), pos |-> r.pos,
                               deep |-> r.deep]
          [] OTHER ->
                [res |-> Err("Invalid expression"), pos |-> pos, deep |-> depth + 1]

parse(tokens, pos) == parse_expression(tokens, pos, 0)

(***************************************************************************)
(* Inputs.                                                                 *)
(***************************************************************************)
\* Lines typed at the prompt: every text of at most MaxLen characters over
\* Alphabet, and the two exit sentinels.
Alphabet == {"0", "1", "9", "+", "-", "*", "/", "%", "(", ")", " ", "\t", "x"}

Sentinels == {<<"s", "a", "i", "r">>, <<"e", "x", "i", "t">>}

\* Lines spelling a sequence of at most MaxTokens tokens, one space apart.
TokenAlphabet ==
    {TokNumber(1), TokNumber(2), Plus, Minus, Times, Divide, Modulo,
     LeftParen, RightParen}

Lexeme(token) ==
    CASE token[1] = "TokNumber" -> to_string(token[2])
      [] token = Plus -> <<"+">>
      [] token = Minus -> <<"-">>
      [] token = Times -> <<"*">>
      [] token = Divide -> <<"/">>
      [] token = Modulo -> <<"%">>
      [] token = LeftParen -> <<"(">>
      [] token = RightParen -> <<")">>

RECURSIVE Spell(_)
Spell(tokens) ==
    IF Len(tokens) = 0 THEN <<>>
    ELSE IF Len(tokens) = 1 THEN Lexeme(tokens[1])
    ELSE Lexeme(tokens[1]) \o <<" ">> \o Spell(Tail(tokens))

\* Lines spelling, fully parenthesised, every expression of at most MaxNodes
\* nodes over the literals Leaves.  An expression is enumerated by its prefix
\* code: the sequence of its nodes' heads in pre-order.
BinaryVariants ==
    {"Addition", "Subtraction", "Multiplication", "Division", "Remainder"}

Binary(variant, left, right) == <<variant, left, right>>

Leaves == {0, 1, I64_MAX}

Heads ==
    {Number(v) : v \in Leaves} \cup {<<"Negation">>}
        \cup {<<variant>> : variant \in BinaryVariants}

Arity(head) ==
    IF head[1] = "Number" THEN 0 ELSE IF head[1] = "Negation" THEN 1 ELSE 2

\* The number of operands still missing after the first k heads.
RECURSIVE Pending(_, _)
Pending(code, k) ==
    IF k = 0 THEN 1 ELSE Pending(code, k - 1) - 1 + Arity(code[k])

WellFormed(code) ==
    /\ Len(code) >= 1
    /\ Pending(code, Len(code)) = 0
    /\ \A k \in 0..(Len(code) - 1) : Pending(code, k) > 0

\* The expression whose code starts at index i, and the index after it.
RECURSIVE Decode(_, _)
Decode(code, i) ==
    IF Arity(code[i]) = 0 THEN [expr |-> code[i], next |-> i + 1]
    ELSE IF Arity(code[i]) = 1
    THEN LET e == Decode(code, i + 1)
         IN  [expr |-> Negation(e.expr), next |-> e.next]
    ELSE LET l == Decode(code, i + 1)
             r == Decode(code, l.next)
         IN  [expr |-> Binary(code[i][1], l.expr, r.expr), next |-> r.next]

Symbol(self) ==
    CASE self[1] = "Addition" -> "+"
      [] self[1] = "Subtraction" -> "-"
      [] self[1] = "Multiplication" -> "*"
      [] self[1] = "Division" -> "/"
      [] self[1] = "Remainder" -> "%"
      [] self[1] = "Negation" -> "-"

RECURSIVE Source(_)
Source(e) ==
    CASE e[1] = "Number" -> to_string(e[2])
      [] e[1] = "Negation" -> <<"-">> \o Source(e[2])
      [] OTHER -> <<"(">> \o Source(e[2]) \o <<" ", Symbol(e)>> \o Source(e[3])
                      \o <<")">>

\* Lines spelling one operator applied to operands of every i64 value: the
\* operand of value v is the literal v, its negation, or (for the minimum)
\* -I64_MAX - 1; FailingOperand is an operand whose evaluation fails.
Operand(v) ==
    IF v >= 0 THEN Number(v)
    ELSE IF v > I64_MIN THEN Negation(Number(-v))
    ELSE Subtraction(Negation(Number(I64_MAX)), Number(1))

FailingOperand == Division(Number(1), Number(0))

Operands == {Operand(v) : v \in I64_MIN..I64_MAX} \cup {FailingOperand}

(***************************************************************************)
(* fn main: the interactive loop.  pc is the position in the loop body.    *)
(***************************************************************************)
is_whitespace(c) == c \in {" ", "\t", "\n", "\r"}

RECURSIVE trim_start(_)
trim_start(line) ==
    IF line # <<>> /\ is_whitespace(line[1]) THEN trim_start(Tail(line)) ELSE line

RECURSIVE trim_end(_)
trim_end(line) ==
    IF line # <<>> /\ is_whitespace(line[Len(line)])
    THEN trim_end(SubSeq(line, 1, Len(line) - 1))
    ELSE line

trim(line) == trim_end(trim_start(line))

Clear ==
    /\ parser' = Unset
    /\ parsed' = Unset
    /\ printed' = Unset
    /\ tree' = Unset
    /\ result' = Unset

\* read_line, trim, the blank-line and exit tests.
Read(line) ==
    LET trimmed == trim(line)
    IN  IF trimmed = <<>> THEN UNCHANGED vars
        ELSE /\ input' = trimmed
             /\ pc' = IF trimmed \in Sentinels THEN "exit" ELSE "new"
             /\ Clear

ReadLine ==
    /\ pc = "read"
    /\ \E k \in 0..(MaxLen + 1) :
          IF k <= MaxLen THEN \E line \in [1..k -> Alphabet] : Read(line)
          ELSE \E line \in Sentinels : Read(line)

\* match Parser::new(input): on Err the message is printed and the loop resumes.
NewParser ==
    /\ pc = "new"
    /\ parser' = Parser_new(input)
    /\ pc' = IF parser'[1] = "Ok" THEN "lexed" ELSE "done"
    /\ UNCHANGED <<input, parsed, printed, tree, result>>

\* match parser.parse(): on Err the message is printed and the loop resumes.
Parse ==
    /\ pc = "lexed"
    /\ LET r == parse(parser[2].tokens, parser[2].pos)
       IN  /\ parsed' = r.res
           /\ parser' = Ok([parser[2] EXCEPT !.pos = r.pos])
           /\ pc' = IF r.res[1] = "Ok" THEN "parsed" ELSE "done"
    /\ UNCHANGED <<input, printed, tree, result>>

\* expr.print()
PrintInfix ==
    /\ pc = "parsed"
    /\ printed' = print(parsed[2])
    /\ pc' = "printed"
    /\ UNCHANGED <<input, parser, parsed, tree, result>>

\* expr.print_tree()
PrintTree ==
    /\ pc = "printed"
    /\ tree' = print_tree(parsed[2])
    /\ pc' = "tree"
    /\ UNCHANGED <<input, parser, parsed, printed, result>>

\* match expr.evaluate(): the result or the failure message is printed.
Evaluate ==
    /\ pc = "tree"
    /\ result' = evaluate(parsed[2])
    /\ pc' = "done"
    /\ UNCHANGED <<input, parser, parsed, printed, tree>>

\* The end of the loop body: the turn's values are dropped and the loop resumes.
Resume ==
    /\ pc = "done"
    /\ pc' = "read"
    /\ input' = Unset
    /\ Clear

Idle ==
    /\ input = Unset
    /\ parser = Unset
    /\ parsed = Unset
    /\ printed = Unset
    /\ tree = Unset
    /\ result = Unset

\* The loop from its start.
Init == pc = "read" /\ Idle

Next ==
    ReadLine \/ NewParser \/ Parse \/ PrintInfix \/ PrintTree \/ Evaluate \/ Resume

Spec == Init /\ [][Next]_vars

\* One turn of the loop on a line that has just been read.
Given(line) ==
    /\ pc = "new"
    /\ input = line
    /\ parser = Unset
    /\ parsed = Unset
    /\ printed = Unset
    /\ tree = Unset
    /\ result = Unset

Turn == NewParser \/ Parse \/ PrintInfix \/ PrintTree \/ Evaluate \/ Resume

InitTok ==
    \E k \in 1..MaxTokens : \E tokens \in [1..k -> TokenAlphabet] : Given(Spell(tokens))

SpecTok == InitTok /\ [][Turn]_vars

InitSrc ==
    \E n \in 1..MaxNodes : \E code \in [1..n -> Heads] :
        WellFormed(code) /\ Given(Source(Decode(code, 1).expr))

SpecSrc == InitSrc /\ [][Turn]_vars

InitEval ==
    \/ \E variant \in BinaryVariants, left \in Operands, right \in Operands :
          Given(Source(Binary(variant, left, right)))
    \/ \E e \in Operands : Given(Source(Negation(e)))

SpecEval == InitEval /\ [][Turn]_vars

\* The lines of tokens and the lines of expressions together.
InitAccepted == InitTok \/ InitSrc

SpecAccepted == InitAccepted /\ [][Turn]_vars

(***************************************************************************)
(* Lexing, stated over the text alone.                                     *)
(***************************************************************************)
DecimalDigits == {"0", "1", "2", "3", "4", "5", "6", "7", "8", "9"}

OperatorChars == {"+", "-", "*", "/", "%", "(", ")"}

BlankChars == {" ", "\t", "\n"}

\* A maximal digit run starts at i and ends at RunLast(s, i).
RunStart(s, i) == s[i] \in DecimalDigits /\ (i = 1 \/ s[i - 1] \notin DecimalDigits)

RunLast(s, i) ==
    CHOOSE j \in i..Len(s) :
        /\ \A k \in i..j : s[k] \in DecimalDigits
        /\ (j = Len(s) \/ s[j + 1] \notin DecimalDigits)

RECURSIVE PositionalValue(_, _, _)
PositionalValue(s, i, j) ==
    IF i > j THEN 0 ELSE DigitValue(s[j]) + 10 * PositionalValue(s, i, j - 1)

RunValue(s, i) == PositionalValue(s, i, RunLast(s, i))

Offending(s, i) ==
    \/ s[i] \notin (DecimalDigits \cup OperatorChars \cup BlankChars)
    \/ (RunStart(s, i) /\ RunValue(s, i) > I64_MAX)

TokenStarts(s) == {i \in 1..Len(s) : s[i] \in OperatorChars \/ RunStart(s, i)}

TokenAt(s, i) ==
    IF s[i] \in DecimalDigits THEN TokNumber(RunValue(s, i))
    ELSE CHOOSE t \in {Plus, Minus, Times, Divide, Modulo, LeftParen, RightParen} :
            Lexeme(t) = <<s[i]>>

ExpectedTokens(s) ==
    LET starts == TokenStarts(s)
        nth(k) == CHOOSE i \in starts : Cardinality({j \in starts : j < i}) = k - 1
    IN  [k \in 1..Cardinality(starts) |-> TokenAt(s, nth(k))]

ExpectedLex(s) ==
    IF \E i \in 1..Len(s) : Offending(s, i)
    THEN LET first == CHOOSE i \in 1..Len(s) :
                          Offending(s, i) /\ \A j \in 1..(i - 1) : ~Offending(s, j)
         IN  IF s[first] \in DecimalDigits THEN Err(<<"Invalid number">>)
             ELSE Err(<<"Invalid character", s[first]>>)
    ELSE Ok(ExpectedTokens(s))

\* C7: tokenize is all-or-nothing: when every character is blank, an operator,
\* a parenthesis or a digit and every maximal digit run fits the integer width,
\* the parser holds exactly one token per operator character and per maximal
\* digit run, in order; otherwise it holds only the error of the first
\* offending character or digit run, and no tokens.
TokenizeAllOrNothing ==
    parser # Unset =>
        LET expected == ExpectedLex(input)
        IN  IF expected[1] = "Err" THEN parser = expected
            ELSE parser[1] = "Ok" /\ parser[2].tokens = expected[2]

\* A line with a blank inside and a two-digit run has been tokenized.
TokenizeWitness ==
    /\ parser # Unset
    /\ parser[1] = "Ok"
    /\ \E i \in 1..Len(input) : input[i] \in BlankChars
    /\ \E k \in 1..Len(parser[2].tokens) :
          parser[2].tokens[k][1] = "TokNumber" /\ parser[2].tokens[k][2] >= 10

\* A line whose digit run does not fit has been rejected.
TokenizeOverflowWitness ==
    /\ parser = Err(<<"Invalid number">>)
    /\ \E i \in 1..Len(input) : input[i] \notin DecimalDigits

(***************************************************************************)
(* The grammar, stated over token sequences alone.                         *)
(*   expression := term (('+'|'-') term)*                                  *)
(*   term       := factor (('*'|'/'|'%') factor)*                          *)
(*   factor     := NUMBER | '-' factor | '(' expression ')'                *)
(***************************************************************************)
AdditiveTokens == {Plus, Minus}

MultiplicativeTokens == {Times, Divide, Modulo}

RECURSIVE IsExpression(_)
RECURSIVE IsTerm(_)
RECURSIVE IsFactor(_)

IsFactor(s) ==
    /\ Len(s) >= 1
    /\ \/ Len(s) = 1 /\ s[1][1] = "TokNumber"
       \/ s[1] = Minus /\ IsFactor(Tail(s))
       \/ /\ Len(s) >= 3
          /\ s[1] = LeftParen
          /\ s[Len(s)] = RightParen
          /\ IsExpression(SubSeq(s, 2, Len(s) - 1))

IsTerm(s) ==
    \/ IsFactor(s)
    \/ \E k \in 2..(Len(s) - 1) :
          /\ s[k] \in MultiplicativeTokens
          /\ IsFactor(SubSeq(s, k + 1, Len(s)))
          /\ IsTerm(SubSeq(s, 1, k - 1))

IsExpression(s) ==
    \/ IsTerm(s)
    \/ \E k \in 2..(Len(s) - 1) :
          /\ s[k] \in AdditiveTokens
          /\ IsTerm(SubSeq(s, k + 1, Len(s)))
          /\ IsExpression(SubSeq(s, 1, k - 1))

\* C2: parse returns an AST only when the whole token sequence is a sentence
\* of the grammar, and a ParseError for every other token sequence.
ParseAcceptsOnlySentences ==
    parsed # Unset => (parsed[1] = "Ok" <=> IsExpression(parser[2].tokens))

(***************************************************************************)
(* Grouping by precedence and associativity, stated over a sentence alone: *)
(* the root is the last binary '+' or '-' outside parentheses; failing     *)
(* that, the last '*', '/' or '%' outside parentheses; failing that, a     *)
(* leading unary minus, a parenthesised expression or a number.            *)
(***************************************************************************)
Count(s, token, k) == Cardinality({i \in 1..(k - 1) : s[i] = token})

Outermost(s, k) == Count(s, LeftParen, k) = Count(s, RightParen, k)

\* An operator token is binary when an operand ends just before it.
BinaryAt(s, k) == k > 1 /\ (s[k - 1][1] = "TokNumber" \/ s[k - 1] = RightParen)

Splits(s, tokens) ==
    {k \in 1..Len(s) : s[k] \in tokens /\ BinaryAt(s, k) /\ Outermost(s, k)}

Last(S) == CHOOSE k \in S : \A j \in S : j <= k

VariantOf(token) ==
    CASE token = Plus -> "Addition"
      [] token = Minus -> "Subtraction"
      [] token = Times -> "Multiplication"
      [] token = Divide -> "Division"
      [] token = Modulo -> "Remainder"

RECURSIVE Grouping(_)
SplitAt(s, k) ==
    Binary(VariantOf(s[k]), Grouping(SubSeq(s, 1, k - 1)),
           Grouping(SubSeq(s, k + 1, Len(s))))

Grouping(s) ==
    IF Splits(s, AdditiveTokens) # {} THEN SplitAt(s, Last(Splits(s, AdditiveTokens)))
    ELSE IF Splits(s, MultiplicativeTokens) # {}
    THEN SplitAt(s, Last(Splits(s, MultiplicativeTokens)))
    ELSE IF s[1] = Minus THEN Negation(Grouping(Tail(s)))
    ELSE IF s[1] = LeftParen THEN Grouping(SubSeq(s, 2, Len(s) - 1))
    ELSE Number(s[1][2])

Consumed == SubSeq(parser[2].tokens, 1, parser[2].pos)

\* C3: the AST of an accepted token sequence groups the tokens it consumed by
\* precedence and associativity: same-level operators fold to the left,
\* '*', '/', '%' bind tighter than '+', '-', and unary minus takes exactly one
\* factor, so it binds tighter than every binary operator.
ParseGroupsByPrecedence ==
    (parsed # Unset /\ parsed[1] = "Ok") => parsed[2] = Grouping(Consumed)

\* "-1*2" has been parsed as Multiplication(Negation(1), 2).
ParseGroupsWitness ==
    /\ parsed = Ok(Multiplication(Negation(Number(1)), Number(2)))
    /\ parser[2].tokens = <<Minus, TokNumber(1), Times, TokNumber(2)>>

\* "1-2-1" has been parsed as Subtraction(Subtraction(1, 2), 1).
ParseLeftFoldWitness ==
    /\ parsed = Ok(Subtraction(Subtraction(Number(1), Number(2)), Number(1)))
    /\ Len(parser[2].tokens) = 5

(***************************************************************************)
(* Nesting.  The source configures no limit; NestingLimit is a limit below *)
(* the deepest nesting the bounded token sequences reach.                  *)
(***************************************************************************)
NestingLimit == MaxTokens - 2

\* The number of parse_factor calls nested inside the first one.
Nesting(tokens) == parse(tokens, 0).deep - 1

\* C8: parsing an input nested deeper than the configured limit fails with a
\* dedicated error.
NestingDepthLimited ==
    (parsed # Unset /\ Nesting(parser[2].tokens) > NestingLimit)
        => parsed = Err("Expression too deeply nested")

(***************************************************************************)
(* Evaluation, stated over the mathematical integers.                      *)
(***************************************************************************)
MathResult(variant, a, b) ==
    CASE variant = "Addition" -> a + b
      [] variant = "Subtraction" -> a - b
      [] variant = "Multiplication" -> a * b
      [] variant = "Division" -> TruncDiv(a, b)
      [] variant = "Remainder" -> TruncRem(a, b)

OutOfRange(m) == m < -(2^(IntBits - 1)) \/ m > 2^(IntBits - 1) - 1

\* The outcome the overflow rule prescribes for the mathematical result m.
FailsIffOutOfRange(m) ==
    /\ result = None <=> OutOfRange(m)
    /\ result # None => result = Some(m)

Evaluated(variants) == result # Unset /\ parsed[2][1] \in variants

LeftValue == evaluate(parsed[2][2])

RightValue == evaluate(parsed[2][3])

\* C4: Addition, Subtraction, Multiplication and Negation of operands that
\* evaluate successfully fail if and only if the mathematical result lies
\* outside the signed range of the integer width, and otherwise return exactly
\* the mathematical result, never a wrapped value.
EvaluateChecksOverflow ==
    /\ (/\ Evaluated({"Addition", "Subtraction", "Multiplication"})
        /\ LeftValue # None
        /\ RightValue # None)
           => FailsIffOutOfRange(MathResult(parsed[2][1], LeftValue[2], RightValue[2]))
    /\ (Evaluated({"Negation"}) /\ LeftValue # None)
           => FailsIffOutOfRange(-LeftValue[2])

\* I64_MAX + 1 has been evaluated, and failed.
EvaluateOverflowWitness ==
    /\ result = None
    /\ parsed[2] = Addition(Number(I64_MAX), Number(1))

\* C5 as claimed: Division and Remainder of operands that evaluate
\* successfully fail when the right operand is zero, and with a non-zero right
\* operand fail only if the mathematical result is outside the signed range.
DivisionFailsOnlyOutOfRange ==
    (Evaluated({"Division", "Remainder"}) /\ LeftValue # None /\ RightValue # None)
        => IF RightValue[2] = 0 THEN result = None
           ELSE /\ result = None <=>
                       OutOfRange(MathResult(parsed[2][1], LeftValue[2], RightValue[2]))
                /\ result # None => result[1] = "Some"

\* C5 as amended: Division and Remainder of operands that evaluate
\* successfully fail when the right operand is zero, and with a non-zero right
\* operand fail only if the left operand is the minimum value and the right
\* operand is -1 (for Remainder too, whose mathematical result 0 is in range);
\* in every other case they return a result.
DivisionFailsOnZeroOrMinByMinusOne ==
    (Evaluated({"Division", "Remainder"}) /\ LeftValue # None /\ RightValue # None)
        => IF RightValue[2] = 0 THEN result = None
           ELSE /\ result = None <=>
                       (LeftValue[2] = -(2^(IntBits - 1)) /\ RightValue[2] = -1)
                /\ result # None => result[1] = "Some"

\* The minimum value % -1 has been evaluated, and failed.
RemainderMinByMinusOneWitness ==
    /\ result = None
    /\ parsed[2][1] = "Remainder"
    /\ LeftValue = Some(I64_MIN)
    /\ RightValue = Some(-1)

(***************************************************************************)
(* Rendering, stated by precedence thresholds.                             *)
(***************************************************************************)
Precedence(self) ==
    CASE self[1] \in {"Addition", "Subtraction"} -> 1
      [] self[1] \in {"Multiplication", "Division", "Remainder"} -> 3
      [] self[1] = "Negation" -> 5

\* The root gets threshold 0; a binary operator passes its own precedence to
\* its left child and its own precedence + 1 to its right child; Negation
\* passes 5; a node is wrapped iff its precedence is below its threshold.
RECURSIVE Rendering(_, _)
Rendering(self, threshold) ==
    IF self[1] = "Number" THEN to_string(self[2])
    ELSE LET own == Precedence(self)
             body == IF self[1] = "Negation" THEN <<"-">> \o Rendering(self[2], 5)
                     ELSE Rendering(self[2], own) \o <<" ", Symbol(self), " ">>
                              \o Rendering(self[3], own + 1)
         IN  IF own < threshold THEN <<"(">> \o body \o <<")">> ELSE body

\* C6: to_string_prec wraps a node in parentheses if and only if the node's
\* precedence is strictly lower than the threshold its context passes, so a
\* right child of equal precedence is parenthesized and a left child of equal
\* precedence is not.
RenderParenthesizesBelowThreshold ==
    printed # Unset => printed = Rendering(parsed[2], 0)

\* 1 - (0 - 1) has been rendered with its parentheses.
RenderRightChildWitness ==
    /\ parsed = Ok(Subtraction(Number(1), Subtraction(Number(0), Number(1))))
    /\ printed = <<"1", " ", "-", " ", "(", "0", " ", "-", " ", "1", ")">>

\* (1 - 0) - 1 has been rendered without parentheses.
RenderLeftChildWitness ==
    /\ parsed = Ok(Subtraction(Subtraction(Number(1), Number(0)), Number(1)))
    /\ printed = <<"1", " ", "-", " ", "0", " ", "-", " ", "1">>

(***************************************************************************)
(* Round trips of the rendering through tokenize and parse.                *)
(***************************************************************************)
Reparsed ==
    LET p == Parser_new(printed)
    IN  IF p[1] = "Err" THEN [res |-> p, pos |-> 0, rest |-> 0]
        ELSE LET r == parse(p[2].tokens, p[2].pos)
             IN  [res |-> r.res, pos |-> r.pos, rest |-> Len(p[2].tokens) - r.pos]

\* C1: the rendering of the AST of an accepted input is itself accepted, and
\* its AST evaluates to the same result (the same integer, or failure) as the
\* AST of the input.
CanonicalRoundTrip ==
    result # Unset =>
        /\ Reparsed.res[1] = "Ok"
        /\ evaluate(Reparsed.res[2]) = result

\* An expression rendered with parentheses has been evaluated to an integer.
CanonicalRoundTripWitness ==
    /\ result # Unset
    /\ result # None
    /\ \E i \in 1..Len(printed) : printed[i] = "("

\* C10: tokenizing and parsing the rendering of an AST the parser produced
\* succeeds, consumes every token and yields a structurally equal AST, so
\* rendering it again gives the same text.
StructuralRoundTrip ==
    printed # Unset =>
        /\ Reparsed.res = parsed
        /\ Reparsed.rest = 0
        /\ print(Reparsed.res[2]) = printed

\* -(-1 * I64_MAX) has been rendered, with the parentheses it needs.
StructuralRoundTripWitness ==
    /\ printed # Unset
    /\ parsed = Ok(Negation(Multiplication(Negation(Number(1)), Number(I64_MAX))))
    /\ printed[2] = "("

(***************************************************************************)
(* The tree diagram, stated node by node.  A node is named by its path     *)
(* from the root: the sequence of child positions, 1 for the left child or *)
(* the operand, 2 for the right child.                                     *)
(***************************************************************************)
Children(self) ==
    CASE self[1] = "Number" -> <<>>
      [] self[1] = "Negation" -> <<self[2]>>
      [] OTHER -> <<self[2], self[3]>>

RECURSIVE NodeAt(_, _)
NodeAt(self, path) ==
    IF path = <<>> THEN self ELSE NodeAt(Children(self)[path[1]], Tail(path))

\* Node, then left subtree, then right subtree.
RECURSIVE PreOrder(_)
PreOrder(self) ==
    LET kids == Children(self)
        Under(i) == [k \in 1..Len(PreOrder(kids[i])) |-> <<i>> \o PreOrder(kids[i])[k]]
    IN  <<<<>>>> \o (IF Len(kids) >= 1 THEN Under(1) ELSE <<>>)
                 \o (IF Len(kids) = 2 THEN Under(2) ELSE <<>>)

\* The node at a non-empty path is the last child of its parent.
IsLastChild(self, path) ==
    path[Len(path)] = Len(Children(NodeAt(self, SubSeq(path, 1, Len(path) - 1))))

\* The indent of the node at path: two characters for each proper ancestor,
\* blanks for the root and for a last child, a vertical bar and a blank for a
\* non-last child.
RECURSIVE IndentFrom(_, _, _)
IndentFrom(self, path, k) ==
    IF k >= Len(path) THEN <<>>
    ELSE (IF k = 0 \/ IsLastChild(self, SubSeq(path, 1, k)) THEN <<" ", " ">>
          ELSE <<"U+2502", " ">>)
         \o IndentFrom(self, path, k + 1)

Label(self) == IF self[1] = "Number" THEN to_string(self[2]) ELSE <<Symbol(self)>>

TreeLine(self, path) ==
    IF path = <<>> THEN Label(self)
    ELSE IndentFrom(self, path, 0)
         \o <<IF IsLastChild(self, path) THEN "U+2514" ELSE "U+251C", " ">>
         \o Label(NodeAt(self, path))

TreeLines(self) ==
    [k \in 1..Len(PreOrder(self)) |-> TreeLine(self, PreOrder(self)[k])]

\* C9: print_tree emits one line per node in pre-order; the root line is bare;
\* every other line is the node's indent, the glyph of a non-last or a last
\* child, a blank and the node's symbol or value; children are indented two
\* characters further, by a bar and a blank under a non-last child and by two
\* blanks under a last child or the root.
TreeDiagramShape ==
    tree # Unset => tree = TreeLines(parsed[2])

\* 1 + 0 * 1 has been printed as the five lines of the diagram.
TreeDiagramWitness ==
    /\ parsed = Ok(Addition(Number(1), Multiplication(Number(0), Number(1))))
    /\ tree = << <<"+">>,
                 <<" ", " ", "U+251C", " ", "1">>,
                 <<" ", " ", "U+2514", " ", "*">>,
                 <<" ", " ", " ", " ", "U+251C", " ", "0">>,
                 <<" ", " ", " ", " ", "U+2514", " ", "1">> >>

\* 0 * 1 + 1 has been printed with a bar under the non-last child.
TreeDiagramBarWitness ==
    /\ parsed = Ok(Addition(Multiplication(Number(0), Number(1)), Number(1)))
    /\ tree = << <<"+">>,
                 <<" ", " ", "U+251C", " ", "*">>,
                 <<" ", " ", "U+2502", " ", "U+251C", " ", "0">>,
                 <<" ", " ", "U+2502", " ", "U+2514", " ", "1">>,
                 <<" ", " ", "U+2514", " ", "1">> >>

====
